---------------------------- MODULE Spec2Model ----------------------------
(***************************************************************************)
(* DemoMan: the demo entity, its process-wide cache, the sidecar           *)
(* events/tags file, the directory scanner (src/src/Demos.ts) and the      *)
(* highlight filter (src/src/views/demoDetails/Highlights.tsx).            *)
(*                                                                         *)
(* File names are sequences of one-character strings, so that endsWith,    *)
(* the /\.dem$/gi replacement and the rename dialog's character-class      *)
(* test are computed on the characters. A path is [dir, name].             *)
(***************************************************************************)
EXTENDS Integers, Sequences, FiniteSets, TLC

VARIABLES fs, demoCache, heap, openFds, scans, ret, hist, steps,
          filters, checked, highlights

vars == <<fs, demoCache, heap, openFds, scans, ret, hist, steps,
          filters, checked, highlights>>

hlVars == <<filters, checked, highlights>>

-----------------------------------------------------------------------------
(* Bounds of the model *)

\* API calls made in one behaviour
MaxSteps == 3

\* getDemosInDirectory calls in flight (awaiting readdir or their continuation)
MaxScans == 1

\* Clicks and input changes on the timeline filters in one behaviour
MaxEvents == 4

-----------------------------------------------------------------------------
(* Characters and names *)

Lower(c) ==
  CASE c = "D" -> "d"
    [] c = "E" -> "e"
    [] c = "M" -> "m"
    [] c = "B" -> "b"
    [] OTHER -> c

RECURSIVE LowerSeq(_)
LowerSeq(s) == IF s = <<>> THEN <<>> ELSE <<Lower(Head(s))>> \o LowerSeq(Tail(s))

Suffix(s, n) == SubSeq(s, Len(s) - n + 1, Len(s))

DropLast(s, n) == SubSeq(s, 1, Len(s) - n)

\* String.prototype.endsWith: exact, case-sensitive
EndsWith(s, suf) == Len(s) >= Len(suf) /\ Suffix(s, Len(suf)) = suf

DotDem == <<".", "d", "e", "m">>

DotJson == <<".", "j", "s", "o", "n">>

DemoDir == "d"

NoDir == "nodir"

\* path.join(dir, file) for a file name without separators
PathJoin(dir, name) == [dir |-> dir, name |-> name]

\* path.dirname
Dirname(p) == p.dir

\* /\.dem$/gi replaced by ".json": the match is case-insensitive and anchored
\* at the end; a name that does not match is returned unchanged
getJSONPath(filename) ==
  IF Len(filename.name) >= 4 /\ LowerSeq(Suffix(filename.name, 4)) = DotDem
  THEN [filename EXCEPT !.name = DropLast(filename.name, 4) \o DotJson]
  ELSE filename

-----------------------------------------------------------------------------
(* JSON values and file contents *)

\* A JavaScript value as far as `x || []` and `x.length` tell values apart
JUndef == [t |-> "undef", n |-> 0, a |-> <<>>]

JNull == [t |-> "null", n |-> 0, a |-> <<>>]

JNum(n) == [t |-> "num", n |-> n, a |-> <<>>]

JArr(a) == [t |-> "arr", n |-> 0, a |-> a]

\* JavaScript truthiness: undefined, null and 0 are falsy, every array is truthy
Truthy(v) == v.t = "arr" \/ (v.t = "num" /\ v.n # 0)

\* `v || []`
OrEmpty(v) == IF Truthy(v) THEN v ELSE JArr(<<>>)

\* What JSON.parse makes of a file's text: "bad" (SyntaxError), "null",
\* "scalar" (a number, string, boolean or array: no events/tags properties)
\* or "obj" with the two properties
Doc(syntax, events, tags) == [syntax |-> syntax, events |-> events, tags |-> tags]

BadDoc == Doc("bad", JUndef, JUndef)

HEADER_SIZE == 8 + 4 + 4 + 260 + 260 + 260 + 260 + 4 + 4 + 4 + 4

NUL == "NUL"

GoodStamp == <<"H", "L", "2", "D", "E", "M", "O", NUL>>

NearStamp == <<"H", "L", "2", "D", "E", "M", "O", "X">>

EarlyNulStamp == <<"H", "L", "2", NUL, "E", "M", "O", NUL>>

OtherStamp == <<"P", "K", "3", "4", NUL, NUL, "8", NUL>>

JsonStamp == <<"{", "LF", "TAB", "QUOTE", "e", "v", "e", "n">>

Take(s, n) == SubSeq(s, 1, IF n < Len(s) THEN n ELSE Len(s))

\* A regular file: its length, its first (at most 8) bytes, the rest of its
\* header fields (hdr), what JSON.parse makes of its text, its birth time
File(len, stamp, hdr, doc, birth) ==
  [k |-> "file", len |-> len, stamp |-> Take(stamp, len), hdr |-> hdr,
   doc |-> doc, to |-> <<>>, birth |-> birth]

Directory ==
  [k |-> "dir", len |-> 0, stamp |-> <<>>, hdr |-> 0, doc |-> BadDoc,
   to |-> <<>>, birth |-> 0]

Link(target) ==
  [k |-> "link", len |-> 0, stamp |-> <<>>, hdr |-> 0, doc |-> BadDoc,
   to |-> target, birth |-> 0]

\* JSON.stringify({ events, tags }, null, "\t") as the file it makes: an
\* undefined property is left out, every other value is written as it is
Stringify(events, tags, birth) ==
  File(30 + 60 * Len(events.a) + 10 * Len(tags.a), JsonStamp, 0,
       Doc("obj", events, tags), birth)

-----------------------------------------------------------------------------
(* The file system: the entries of the demo directory *)

\* f = [c, ord]: the content of each entry, and the names as readdir lists them
Names(f) == DOMAIN f.c

Has(f, name) == name \in DOMAIN f.c

Get(f, name) == f.c[name]

Del(f, name) ==
  IF name \notin DOMAIN f.c THEN f
  ELSE [c |-> [n \in DOMAIN f.c \ {name} |-> f.c[n]],
        ord |-> SelectSeq(f.ord, LAMBDA n : n # name)]

Put(f, name, c) ==
  IF name \in DOMAIN f.c THEN [f EXCEPT !.c[name] = c]
  ELSE [c |-> [n \in DOMAIN f.c \cup {name} |-> IF n = name THEN c ELSE f.c[n]],
        ord |-> Append(f.ord, name)]

\* The entry `old` under the name `new`, in its place of the listing
Move(f, old, new) ==
  [c |-> [n \in (DOMAIN f.c \ {old}) \cup {new} |->
            IF n = new THEN f.c[old] ELSE f.c[n]],
   ord |-> [i \in 1..Len(Del(f, new).ord) |->
              IF Del(f, new).ord[i] = old THEN new ELSE Del(f, new).ord[i]]]

Exists(f, p) == p.dir = DemoDir /\ Has(f, p.name)

\* The entry a path names, a symbolic link followed
Follow(f, p) ==
  IF Exists(f, p) /\ Get(f, p.name).k = "link"
  THEN [p EXCEPT !.name = Get(f, p.name).to]
  ELSE p

Ok(v) == [err |-> "ok", v |-> v]

Throw(code) == [err |-> code, v |-> 0]

\* fs.realpathSync
realpathSync(f, p) ==
  IF ~Exists(f, p) THEN Throw("ENOENT")
  ELSE IF ~Exists(f, Follow(f, p)) THEN Throw("ENOENT")
  ELSE Ok(Follow(f, p))

\* fs.statSync
statSync(f, p) ==
  IF ~Exists(f, p) THEN Throw("ENOENT")
  ELSE Ok([birthtimeMs |-> Get(f, p.name).birth, size |-> Get(f, p.name).len])

\* fs.readFileSync
readFileSync(f, p) ==
  IF ~Exists(f, p) \/ ~Exists(f, Follow(f, p)) THEN Throw("ENOENT")
  ELSE IF Get(f, Follow(f, p).name).k = "dir" THEN Throw("EISDIR")
  ELSE Ok(Get(f, Follow(f, p).name))

\* fs.renameSync: the new name is replaced when it exists, a directory
\* never replaces or is replaced by a file
renameSync(f, old, new) ==
  IF ~Exists(f, old) \/ new.dir # DemoDir THEN [err |-> "ENOENT", fs |-> f]
  ELSE IF old = new THEN [err |-> "ok", fs |-> f]
  ELSE IF Has(f, new.name) /\ Get(f, new.name).k = "dir"
       THEN [err |-> IF Get(f, old.name).k = "dir" THEN "ENOTEMPTY" ELSE "EISDIR",
             fs |-> f]
  ELSE IF Has(f, new.name) /\ Get(f, old.name).k = "dir"
       THEN [err |-> "ENOTDIR", fs |-> f]
  ELSE [err |-> "ok", fs |-> Move(f, old.name, new.name)]

\* fs.rmSync(path, { force }): a directory is not removed without `recursive`
rmSync(f, p, force) ==
  IF ~Exists(f, p) THEN [err |-> IF force THEN "ok" ELSE "ENOENT", fs |-> f]
  ELSE IF Get(f, p.name).k = "dir" THEN [err |-> "EISDIR", fs |-> f]
  ELSE [err |-> "ok", fs |-> Del(f, p.name)]

\* fs.openSync(path, "w" | "wx") then writeSync and closeSync
openWrite(f, p, flag, content) ==
  IF p.dir # DemoDir THEN [err |-> "ENOENT", fs |-> f]
  ELSE IF flag = "wx" /\ Has(f, p.name) THEN [err |-> "EEXIST", fs |-> f]
  ELSE IF Has(f, p.name) /\ Get(f, Follow(f, p).name).k = "dir"
       THEN [err |-> "EISDIR", fs |-> f]
  ELSE [err |-> "ok", fs |-> Put(f, Follow(f, p).name, content)]

-----------------------------------------------------------------------------
(* The sidecar events/tags file *)

\* writeEventsAndTagsFile(events, tags, jsonPath, overwrite): the file system
\* it leaves and the error it throws ("ok": it returns)
writeEventsAndTagsFile(f, events, tags, jsonPath, overwrite) ==
  IF events.t \in {"undef", "null"} THEN [err |-> "TypeError", fs |-> f]
  ELSE IF events.t = "arr" /\ Len(events.a) = 0
       THEN rmSync(f, jsonPath, TRUE)
  ELSE LET w == openWrite(f, jsonPath, IF overwrite THEN "w" ELSE "wx",
                          Stringify(events, tags, 0))
       IN  IF w.err = "EEXIST" THEN [err |-> "ok", fs |-> f] ELSE w

\* Demo.readEventsAndTags(jsonPath)
readEventsAndTags(f, jsonPath) ==
  LET content == readFileSync(f, jsonPath)
      none == [err |-> "ok", events |-> JArr(<<>>), tags |-> JArr(<<>>)]
  IN  IF content.err = "ENOENT" THEN none
      ELSE IF content.err # "ok"
           THEN [err |-> content.err, events |-> JUndef, tags |-> JUndef]
      ELSE IF content.v.doc.syntax \in {"bad", "null"} THEN none
      ELSE IF content.v.doc.syntax = "scalar" THEN none
      ELSE [err |-> "ok", events |-> OrEmpty(content.v.doc.events),
            tags |-> OrEmpty(content.v.doc.tags)]

-----------------------------------------------------------------------------
(* The header reader *)

RECURSIVE UntilNul(_)
UntilNul(bytes) ==
  IF bytes = <<>> \/ Head(bytes) = NUL THEN <<>>
  ELSE <<Head(bytes)>> \o UntilNul(Tail(bytes))

\* StreamReader.readString(n) at offset 0: the text of the next n bytes up to
\* the first NUL
readString(buf, n) == UntilNul(Take(buf, n))

HL2DEMO == <<"H", "L", "2", "D", "E", "M", "O">>

Min(a, b) == IF a < b THEN a ELSE b

\* readFileHeader without the bytesRead check of lines 93-98
readFileHeaderAnyLength(f, filename) ==
  IF ~Exists(f, filename) \/ ~Exists(f, Follow(f, filename))
  THEN [err |-> "ENOENT", header |-> 0, bytesRead |-> 0, leak |-> 0]
  ELSE LET c == Get(f, Follow(f, filename).name)
           bytesRead == Min(c.len, HEADER_SIZE)
       IN  IF c.k = "dir"
           THEN [err |-> "EISDIR", header |-> 0, bytesRead |-> 0, leak |-> 1]
           ELSE IF readString(c.stamp, 8) # HL2DEMO
           THEN [err |-> "InvalidDemoFile", header |-> 0,
                 bytesRead |-> bytesRead, leak |-> 0]
           ELSE [err |-> "ok", header |-> c.hdr, bytesRead |-> bytesRead,
                 leak |-> 0]

\* Demo.readFileHeader(filename): the error thrown or the header, the bytes
\* read, and whether the descriptor it opened is left open (leak)
readFileHeader(f, filename) ==
  IF ~Exists(f, filename) \/ ~Exists(f, Follow(f, filename))
  THEN [err |-> "ENOENT", header |-> 0, bytesRead |-> 0, leak |-> 0]
  ELSE LET c == Get(f, Follow(f, filename).name)
           bytesRead == Min(c.len, HEADER_SIZE)
       IN  IF c.k = "dir"
           THEN [err |-> "EISDIR", header |-> 0, bytesRead |-> 0, leak |-> 1]
           ELSE IF bytesRead # HEADER_SIZE
           THEN [err |-> "InvalidDemoFile", header |-> 0,
                 bytesRead |-> bytesRead, leak |-> 1]
           ELSE IF readString(c.stamp, 8) # HL2DEMO
           THEN [err |-> "InvalidDemoFile", header |-> 0,
                 bytesRead |-> bytesRead, leak |-> 0]
           ELSE [err |-> "ok", header |-> c.hdr, bytesRead |-> bytesRead,
                 leak |-> 0]

-----------------------------------------------------------------------------
(* The demo entity and the cache.  m = [cache, heap, fds, hist]: the static  *)
(* demoCache, the Demo objects made so far (a Demo's identity is its index),  *)
(* the descriptors left open, and the history the properties read.           *)

Inc(bag, x) ==
  IF x \in DOMAIN bag THEN [bag EXCEPT ![x] = @ + 1]
  ELSE [y \in DOMAIN bag \cup {x} |-> IF y = x THEN 1 ELSE bag[y]]

Count(bag, x) == IF x \in DOMAIN bag THEN bag[x] ELSE 0

EmptyBag == [x \in {} |-> 0]

EmptyHist == [served |-> {}, parses |-> EmptyBag, reads |-> EmptyBag]

\* getDemo without the cache lookup of lines 70-72
getDemoNoLookup(m, f, filename) ==
  LET real == realpathSync(f, filename)
      realPath == real.v
      stats == statSync(f, realPath)
      ea == readEventsAndTags(f, getJSONPath(realPath))
      h == readFileHeader(f, realPath)
      id == Len(m.heap) + 1
      newDemo == [filename |-> realPath, header |-> h.header,
                  events |-> ea.events, tags |-> ea.tags,
                  birthtime |-> stats.v.birthtimeMs, filesize |-> stats.v.size]
      read == [m EXCEPT !.fds = @ + h.leak,
                        !.hist.reads = Inc(@, realPath)]
  IN  IF real.err # "ok" THEN [m |-> m, err |-> real.err, id |-> 0]
      ELSE IF ea.err # "ok" THEN [m |-> m, err |-> ea.err, id |-> 0]
      ELSE IF h.err # "ok" THEN [m |-> read, err |-> h.err, id |-> 0]
      ELSE [m |-> [read EXCEPT
                     !.heap = Append(@, newDemo),
                     !.cache = [p \in DOMAIN @ \cup {realPath} |->
                                  IF p = realPath THEN id ELSE @[p]],
                     !.hist.parses = Inc(@, realPath),
                     !.hist.served = @ \cup {<<filename, id>>}],
            err |-> "ok", id |-> id]

\* getDemo that puts the Demo into the cache before its header is read: the
\* entry stays when readFileHeader throws
getDemoInsertFirst(m, f, filename) ==
  LET real == realpathSync(f, filename)
      realPath == real.v
      stats == statSync(f, realPath)
      ea == readEventsAndTags(f, getJSONPath(realPath))
      h == readFileHeader(f, realPath)
      id == Len(m.heap) + 1
      newDemo == [filename |-> realPath, header |-> h.header,
                  events |-> ea.events, tags |-> ea.tags,
                  birthtime |-> stats.v.birthtimeMs, filesize |-> stats.v.size]
      made == [m EXCEPT !.fds = @ + h.leak,
                        !.hist.reads = Inc(@, realPath),
                        !.heap = Append(@, newDemo),
                        !.cache = [p \in DOMAIN @ \cup {realPath} |->
                                     IF p = realPath THEN id ELSE @[p]]]
  IN  IF real.err # "ok" THEN [m |-> m, err |-> real.err, id |-> 0]
      ELSE IF realPath \in DOMAIN m.cache
           THEN [m |-> [m EXCEPT !.hist.served = @ \cup {<<filename, m.cache[realPath]>>}],
                 err |-> "ok", id |-> m.cache[realPath]]
      ELSE IF stats.err # "ok" THEN [m |-> m, err |-> stats.err, id |-> 0]
      ELSE IF ea.err # "ok" THEN [m |-> m, err |-> ea.err, id |-> 0]
      ELSE IF h.err # "ok" THEN [m |-> made, err |-> h.err, id |-> 0]
      ELSE [m |-> [made EXCEPT
                     !.hist.parses = Inc(@, realPath),
                     !.hist.served = @ \cup {<<filename, id>>}],
            err |-> "ok", id |-> id]

\* Demo.getDemo(filename): the Demo returned (id, 0 when it throws)
getDemo(m, f, filename) ==
  LET real == realpathSync(f, filename)
      realPath == real.v
      stats == statSync(f, realPath)
      ea == readEventsAndTags(f, getJSONPath(realPath))
      h == readFileHeader(f, realPath)
      id == Len(m.heap) + 1
      newDemo == [filename |-> realPath, header |-> h.header,
                  events |-> ea.events, tags |-> ea.tags,
                  birthtime |-> stats.v.birthtimeMs, filesize |-> stats.v.size]
      read == [m EXCEPT !.fds = @ + h.leak,
                        !.hist.reads = Inc(@, realPath)]
  IN  IF real.err # "ok" THEN [m |-> m, err |-> real.err, id |-> 0]
      ELSE IF realPath \in DOMAIN m.cache
           THEN [m |-> [m EXCEPT !.hist.served = @ \cup {<<filename, m.cache[realPath]>>}],
                 err |-> "ok", id |-> m.cache[realPath]]
      ELSE IF stats.err # "ok" THEN [m |-> m, err |-> stats.err, id |-> 0]
      ELSE IF ea.err # "ok" THEN [m |-> m, err |-> ea.err, id |-> 0]
      ELSE IF h.err # "ok" THEN [m |-> read, err |-> h.err, id |-> 0]
      ELSE [m |-> [read EXCEPT
                     !.heap = Append(@, newDemo),
                     !.cache = [p \in DOMAIN @ \cup {realPath} |->
                                  IF p = realPath THEN id ELSE @[p]],
                     !.hist.parses = Inc(@, realPath),
                     !.hist.served = @ \cup {<<filename, id>>}],
            err |-> "ok", id |-> id]

\* Demo.writeEvents(events)
writeEvents(m, f, id, events) ==
  LET jsonPath == getJSONPath(m.heap[id].filename)
      w == writeEventsAndTagsFile(f, events, m.heap[id].tags, jsonPath, TRUE)
  IN  [m |-> [m EXCEPT !.heap[id].events = events], fs |-> w.fs, err |-> w.err]

\* Demo.writeTags(tags)
writeTags(m, f, id, tags) ==
  LET jsonPath == getJSONPath(m.heap[id].filename)
      w == writeEventsAndTagsFile(f, m.heap[id].events, tags, jsonPath, TRUE)
  IN  [m |-> [m EXCEPT !.heap[id].tags = tags], fs |-> w.fs, err |-> w.err]

\* rename without the sidecar step of lines 167-178
renamePrimaryOnly(m, f, id, newName) ==
  LET this == m.heap[id]
      newNameFull == PathJoin(Dirname(this.filename), newName \o DotDem)
      primary == renameSync(f, this.filename, newNameFull)
  IN  IF primary.err # "ok" THEN [m |-> m, fs |-> f, err |-> primary.err]
      ELSE [m |-> [m EXCEPT !.hist = EmptyHist, !.heap[id].filename = newNameFull],
            fs |-> primary.fs, err |-> "ok"]

\* Demo.rename(newName)
rename(m, f, id, newName) ==
  LET this == m.heap[id]
      dir == Dirname(this.filename)
      newNameFull == PathJoin(dir, newName \o DotDem)
      primary == renameSync(f, this.filename, newNameFull)
      sidecar == renameSync(primary.fs, getJSONPath(this.filename),
                            PathJoin(dir, newName \o DotJson))
      changed == [m EXCEPT !.hist = EmptyHist]
  IN  IF primary.err # "ok" THEN [m |-> m, fs |-> f, err |-> primary.err]
      ELSE IF sidecar.err \notin {"ok", "ENOENT"}
           THEN [m |-> changed, fs |-> sidecar.fs, err |-> sidecar.err]
      ELSE [m |-> [changed EXCEPT !.heap[id].filename = newNameFull],
            fs |-> sidecar.fs, err |-> "ok"]

\* delete whose catch swallows every error of the sidecar removal
deleteSwallowAll(m, f, id) ==
  LET this == m.heap[id]
      primary == rmSync(f, this.filename, FALSE)
      sidecar == rmSync(primary.fs, getJSONPath(this.filename), FALSE)
  IN  IF primary.err # "ok" THEN [m |-> m, fs |-> f, err |-> primary.err]
      ELSE [m |-> [m EXCEPT !.hist = EmptyHist], fs |-> sidecar.fs, err |-> "ok"]

\* Demo.delete()
delete(m, f, id) ==
  LET this == m.heap[id]
      primary == rmSync(f, this.filename, FALSE)
      sidecar == rmSync(primary.fs, getJSONPath(this.filename), FALSE)
      changed == [m EXCEPT !.hist = EmptyHist]
  IN  IF primary.err # "ok" THEN [m |-> m, fs |-> f, err |-> primary.err]
      ELSE IF sidecar.err \notin {"ok", "ENOENT"}
           THEN [m |-> changed, fs |-> sidecar.fs, err |-> sidecar.err]
      ELSE [m |-> changed, fs |-> sidecar.fs, err |-> "ok"]

-----------------------------------------------------------------------------
(* The directory scanner *)

\* fs.promises.readdir(dirPath): the names, or the rejection
readdir(f, dirPath) ==
  IF dirPath # DemoDir THEN Throw("ENOENT")
  ELSE Ok(f.ord)

\* forEach without the try/catch of lines 212-216: the first failing entry
\* ends the scan
RECURSIVE forEachFileNoCatch(_, _, _, _, _)
forEachFileNoCatch(m, f, dirPath, files, demoList) ==
  IF files = <<>> THEN [m |-> m, demoList |-> demoList]
  ELSE LET file == Head(files)
           g == getDemo(m, f, PathJoin(dirPath, file))
       IN  IF EndsWith(file, DotDem)
           THEN IF g.err = "ok"
                THEN forEachFileNoCatch(g.m, f, dirPath, Tail(files),
                                        Append(demoList, g.id))
                ELSE [m |-> g.m, demoList |-> demoList]
           ELSE forEachFileNoCatch(m, f, dirPath, Tail(files), demoList)

\* The body of files.forEach in getDemosInDirectory, over the listed names
RECURSIVE forEachFile(_, _, _, _, _)
forEachFile(m, f, dirPath, files, demoList) ==
  IF files = <<>> THEN [m |-> m, demoList |-> demoList]
  ELSE LET file == Head(files)
           g == getDemo(m, f, PathJoin(dirPath, file))
       IN  IF EndsWith(file, DotDem)
           THEN forEachFile(g.m, f, dirPath, Tail(files),
                            IF g.err = "ok" THEN Append(demoList, g.id)
                            ELSE demoList)
           ELSE forEachFile(m, f, dirPath, Tail(files), demoList)

-----------------------------------------------------------------------------
(* The initial directory and the inputs *)

Str1(c) == <<c>>

ADem == <<"a">> \o DotDem

AJson == <<"a">> \o DotJson

BUpper == <<"B", ".", "D", "E", "M">>

CDem == <<"c">> \o DotDem

CJson == <<"c">> \o DotJson

XDem == <<"x">> \o DotDem

NTxt == <<"n", ".", "t", "x", "t">>

LDem == <<"l">> \o DotDem

QJson == <<"q">> \o DotJson

Entry(name, c) == [name |-> name, c |-> c]

\* The directory holding the entries, listed in their order
MakeDir(entries) ==
  [c |-> [n \in {entries[i].name : i \in 1..Len(entries)} |->
            entries[CHOOSE i \in 1..Len(entries) : entries[i].name = n].c],
   ord |-> [i \in 1..Len(entries) |-> entries[i].name]]

Garbage == File(7, <<"g", "a", "r", "b", "a", "g", "e">>, 0, BadDoc, 5)

NullText == File(4, <<"n", "u", "l", "l">>, 0, Doc("null", JUndef, JUndef), 5)

ScalarText == File(1, <<"5">>, 0, Doc("scalar", JUndef, JUndef), 5)

\* {"events": 5}
WrongTyped == File(15, JsonStamp, 0, Doc("obj", JNum(5), JUndef), 5)

\* {"tags": ["t3"]}
TagsOnly == File(20, JsonStamp, 0, Doc("obj", JUndef, JArr(<<"t3">>)), 5)

\* {"events": 0, "tags": null}
FalsyFields == File(25, JsonStamp, 0, Doc("obj", JNum(0), JNull), 5)

SidecarContents == {WrongTyped, TagsOnly, Garbage, Directory}

AllSidecarContents == SidecarContents \cup {NullText, ScalarText, FalsyFields}

PrimaryContents ==
  {File(HEADER_SIZE, NearStamp, 9, BadDoc, 6),
   File(HEADER_SIZE - 1, GoodStamp, 9, BadDoc, 6)}

InitialDir(sidecar, primary) ==
  MakeDir(
  << Entry(ADem, File(2 * HEADER_SIZE, GoodStamp, 1, BadDoc, 1)),
     Entry(AJson, Stringify(JArr(<<"e1">>), JArr(<<"t1">>), 2)),
     Entry(BUpper, File(3 * HEADER_SIZE, GoodStamp, 2, BadDoc, 3)),
     Entry(CDem, File(HEADER_SIZE, GoodStamp, 3, BadDoc, 4)),
     Entry(CJson, sidecar),
     Entry(XDem, primary),
     Entry(NTxt, File(HEADER_SIZE + 1, GoodStamp, 4, BadDoc, 7)),
     Entry(LDem, Link(ADem)) >>)

EventInputs == {JArr(<<>>), JArr(<<"e2">>)}

TagInputs == {JArr(<<>>), JArr(<<"t2">>)}

NAME_MAX == 50

LongName == [i \in 1..(NAME_MAX + 1) |-> "a"]

NameInputs == {<<"b">>, <<"b", "!">>, <<>>, LongName}

Letters ==
  {"a", "b", "c", "d", "e", "f", "g", "h", "i", "j", "k", "l", "m", "n", "o",
   "p", "q", "r", "s", "t", "u", "v", "w", "x", "y", "z",
   "A", "B", "C", "D", "E", "F", "G", "H", "I", "J", "K", "L", "M", "N", "O",
   "P", "Q", "R", "S", "T", "U", "V", "W", "X", "Y", "Z"}

Digits == {"0", "1", "2", "3", "4", "5", "6", "7", "8", "9"}

\* RenameDialog.validateNewName: /^[a-zA-Z0-9\-_ [\]().]{1,50}$/
validateNewName(value) ==
  /\ Len(value) >= 1
  /\ Len(value) <= NAME_MAX
  /\ \A i \in 1..Len(value) :
       value[i] \in Letters \cup Digits \cup {"-", "_", " ", "[", "]", "(", ")", "."}

-----------------------------------------------------------------------------
(* The highlight timeline (state of HighlightsList and TimelineFilters) *)

DefaultFilters ==
  [playerIds |-> <<>>, chatSearch |-> <<>>,
   visibleKillfeed |-> TRUE, visibleCaptures |-> TRUE, visibleChat |-> TRUE,
   visibleConnectionMessages |-> TRUE, visibleKillstreaks |-> TRUE,
   visibleRounds |-> TRUE, visibleAirshots |-> TRUE]

ToggleProps ==
  {"visibleKillfeed", "visibleCaptures", "visibleChat",
   "visibleConnectionMessages", "visibleKillstreaks", "visibleRounds",
   "visibleAirshots"}

\* A player reference that is null
NoPlayer == -1

\* A highlight event: its variant t and the fields the filter reads (a, b, c:
\* the user_id of up to three player references, NoPlayer when null)
Ev(t, a, b, c, cappers, name, text) ==
  [t |-> t, a |-> a, b |-> b, c |-> c, cappers |-> cappers, name |-> name,
   text |-> text]

Plain(t) == Ev(t, NoPlayer, NoPlayer, NoPlayer, <<>>, <<>>, <<>>)

H(event, tick) == [event |-> event, tick |-> tick]

\* gameSummary.highlights: Kill(killer a, assister b, victim c),
\* ChatMessage(sender a), Airshot(attacker a, victim b),
\* CrossbowAirshot(healer a, target b), KillStreak(player a),
\* KillStreakEnded(killer a, victim b), PlayerConnected/Disconnected(user_id a)
GameHighlights ==
  << H(Plain("RoundStart"), 1),
     H(Ev("PlayerConnected", 10, NoPlayer, NoPlayer, <<>>, <<>>, <<>>), 2),
     H(Ev("Kill", 2, 3, 10, <<>>, <<>>, <<>>), 3),
     H(Ev("ChatMessage", 3, NoPlayer, NoPlayer, <<>>, <<"B", "o">>, <<"g", "g">>), 4),
     H(Ev("Kill", 10, NoPlayer, 2, <<>>, <<>>, <<>>), 5),
     H(Ev("Airshot", 2, 10, NoPlayer, <<>>, <<>>, <<>>), 6),
     H(Ev("CrossbowAirshot", 3, 2, NoPlayer, <<>>, <<>>, <<>>), 7),
     H(Ev("KillStreak", 2, NoPlayer, NoPlayer, <<>>, <<>>, <<>>), 8),
     H(Ev("KillStreakEnded", 10, 2, NoPlayer, <<>>, <<>>, <<>>), 9),
     H(Ev("PointCaptured", NoPlayer, NoPlayer, NoPlayer, <<2, 3>>, <<>>, <<>>), 10),
     H(Ev("ChatMessage", 2, NoPlayer, NoPlayer, <<>>, <<"A", "l">>, <<"H", "i">>), 11),
     H(Plain("RoundWin"), 12),
     H(Ev("PlayerDisconnected", 3, NoPlayer, NoPlayer, <<>>, <<>>, <<>>), 13),
     H(Plain("RoundStalemate"), 14) >>

DigitVal(c) ==
  CASE c = "0" -> 0 [] c = "1" -> 1 [] c = "2" -> 2 [] c = "3" -> 3
    [] c = "4" -> 4 [] c = "5" -> 5 [] c = "6" -> 6 [] c = "7" -> 7
    [] c = "8" -> 8 [] c = "9" -> 9

NaN == -2

\* Number.parseInt(p, 10) of a string of digits; NaN for the empty string
RECURSIVE parseDigits(_, _)
parseDigits(p, acc) ==
  IF p = <<>> THEN acc ELSE parseDigits(Tail(p), 10 * acc + DigitVal(Head(p)))

parseInt(p) == IF p = <<>> \/ Head(p) \notin Digits THEN NaN ELSE parseDigits(p, 0)

DigitChar(d) ==
  CASE d = 0 -> "0" [] d = 1 -> "1" [] d = 2 -> "2" [] d = 3 -> "3"
    [] d = 4 -> "4" [] d = 5 -> "5" [] d = 6 -> "6" [] d = 7 -> "7"
    [] d = 8 -> "8" [] d = 9 -> "9"

\* player.user_id.toString(10) (playerToSelectItem)
RECURSIVE toString10(_)
toString10(n) ==
  IF n < 10 THEN <<DigitChar(n)>> ELSE toString10(n \div 10) \o <<DigitChar(n % 10)>>

\* samePlayer(playerId, player): playerId === player?.user_id
samePlayer(playerId, player) == player # NoPlayer /\ playerId = player

\* doesHighlightIncludePlayer whose Kill case leaves out the assister
doesHighlightIncludePlayerNoAssister(highlight, playerId) ==
  CASE highlight.t = "Airshot" ->
         samePlayer(playerId, highlight.b) \/ samePlayer(playerId, highlight.a)
    [] highlight.t = "ChatMessage" -> samePlayer(playerId, highlight.a)
    [] highlight.t = "CrossbowAirshot" ->
         samePlayer(playerId, highlight.a) \/ samePlayer(playerId, highlight.b)
    [] highlight.t = "Kill" ->
         samePlayer(playerId, highlight.a) \/ samePlayer(playerId, highlight.c)
    [] highlight.t = "KillStreak" -> samePlayer(playerId, highlight.a)
    [] highlight.t = "KillStreakEnded" ->
         samePlayer(playerId, highlight.a) \/ samePlayer(playerId, highlight.b)
    [] highlight.t = "PlayerConnected" -> playerId = highlight.a
    [] highlight.t = "PlayerDisconnected" -> playerId = highlight.a
    [] highlight.t = "PointCaptured" ->
         \E i \in 1..Len(highlight.cappers) : highlight.cappers[i] = playerId
    [] OTHER -> TRUE

\* doesHighlightIncludePlayer with `default: return false`
doesHighlightIncludePlayerStrict(highlight, playerId) ==
  CASE highlight.t = "Airshot" ->
         samePlayer(playerId, highlight.b) \/ samePlayer(playerId, highlight.a)
    [] highlight.t = "ChatMessage" -> samePlayer(playerId, highlight.a)
    [] highlight.t = "CrossbowAirshot" ->
         samePlayer(playerId, highlight.a) \/ samePlayer(playerId, highlight.b)
    [] highlight.t = "Kill" ->
         \/ samePlayer(playerId, highlight.a)
         \/ samePlayer(playerId, highlight.b)
         \/ samePlayer(playerId, highlight.c)
    [] highlight.t = "KillStreak" -> samePlayer(playerId, highlight.a)
    [] highlight.t = "KillStreakEnded" ->
         samePlayer(playerId, highlight.a) \/ samePlayer(playerId, highlight.b)
    [] highlight.t = "PlayerConnected" -> playerId = highlight.a
    [] highlight.t = "PlayerDisconnected" -> playerId = highlight.a
    [] highlight.t = "PointCaptured" ->
         \E i \in 1..Len(highlight.cappers) : highlight.cappers[i] = playerId
    [] OTHER -> FALSE

\* doesHighlightIncludePlayer(highlight, playerId)
doesHighlightIncludePlayer(highlight, playerId) ==
  CASE highlight.t = "Airshot" ->
         samePlayer(playerId, highlight.b) \/ samePlayer(playerId, highlight.a)
    [] highlight.t = "ChatMessage" -> samePlayer(playerId, highlight.a)
    [] highlight.t = "CrossbowAirshot" ->
         samePlayer(playerId, highlight.a) \/ samePlayer(playerId, highlight.b)
    [] highlight.t = "Kill" ->
         \/ samePlayer(playerId, highlight.a)
         \/ samePlayer(playerId, highlight.b)
         \/ samePlayer(playerId, highlight.c)
    [] highlight.t = "KillStreak" -> samePlayer(playerId, highlight.a)
    [] highlight.t = "KillStreakEnded" ->
         samePlayer(playerId, highlight.a) \/ samePlayer(playerId, highlight.b)
    [] highlight.t = "PlayerConnected" -> playerId = highlight.a
    [] highlight.t = "PlayerDisconnected" -> playerId = highlight.a
    [] highlight.t = "PointCaptured" ->
         \E i \in 1..Len(highlight.cappers) : highlight.cappers[i] = playerId
    [] OTHER -> TRUE

\* new RegExp(pattern, "i") for patterns of literal characters and ".": a
\* pattern with an unclosed "(" is a SyntaxError
regexValid(pattern) == \A i \in 1..Len(pattern) : pattern[i] # "("

UpperToLower(c) ==
  CASE c = "A" -> "a" [] c = "B" -> "b" [] c = "G" -> "g" [] c = "H" -> "h"
    [] c = "I" -> "i" [] c = "L" -> "l" [] c = "O" -> "o" [] OTHER -> c

\* regex.test(text): the pattern matches somewhere in the text, letters
\* compared without case
regexTest(pattern, text) ==
  \E k \in 0..(Len(text) - Len(pattern)) :
    \A i \in 1..Len(pattern) :
      pattern[i] = "." \/ UpperToLower(pattern[i]) = UpperToLower(text[k + i])

PlayerStep(fl, list) ==
  IF Len(fl.playerIds) > 0
  THEN SelectSeq(list, LAMBDA h :
         \E i \in 1..Len(fl.playerIds) :
           /\ doesHighlightIncludePlayer(h.event, parseInt(fl.playerIds[i]))
           /\ fl.playerIds[i] # <<>>)
  ELSE list

ChatStep(fl, list) ==
  IF fl.chatSearch # <<>>
  THEN SelectSeq(list, LAMBDA h :
         \/ h.event.t # "ChatMessage"
         \/ regexTest(fl.chatSearch, h.event.name)
         \/ regexTest(fl.chatSearch, h.event.text))
  ELSE list

\* if (!filters.visibleX) highlights = highlights.filter(h => h.event.t is
\* none of the variants of X)
ToggleStep(visible, list, hidden) ==
  IF ~visible THEN SelectSeq(list, LAMBDA h : h.event.t \notin hidden) ELSE list

\* recomputeHighlights(filters): the list handed to setHighlights, or the
\* SyntaxError of new RegExp, which leaves the displayed list as it was
recomputeHighlights(fl) ==
  IF fl.chatSearch # <<>> /\ ~regexValid(fl.chatSearch)
  THEN [err |-> "SyntaxError", list |-> <<>>]
  ELSE [err |-> "ok",
        list |->
          ToggleStep(fl.visibleAirshots,
          ToggleStep(fl.visibleRounds,
          ToggleStep(fl.visibleKillstreaks,
          ToggleStep(fl.visibleConnectionMessages,
          ToggleStep(fl.visibleChat,
          ToggleStep(fl.visibleCaptures,
          ToggleStep(fl.visibleKillfeed,
            ChatStep(fl, PlayerStep(fl, GameHighlights)),
            {"Kill"}),
            {"PointCaptured"}),
            {"ChatMessage"}),
            {"PlayerConnected", "PlayerDisconnected"}),
            {"KillStreak", "KillStreakEnded"}),
            {"RoundStart", "RoundWin", "RoundStalemate"}),
            {"Airshot", "CrossbowAirshot"})]

\* gameSummary.players, as the MultiSelect offers them
PlayerIds == {2, 3, 10}

PlayerSelections ==
  {<<>>} \cup {<<toString10(p)>> : p \in PlayerIds}
         \cup {<<toString10(2), toString10(10)>>}

SearchInputs == {<<>>, <<"g">>, <<"B", "O">>, <<"h", ".">>, <<"(">>}

-----------------------------------------------------------------------------
(* State *)

M == [cache |-> demoCache, heap |-> heap, fds |-> openFds, hist |-> hist]

SetM(m) ==
  /\ demoCache' = m.cache
  /\ heap' = m.heap
  /\ openFds' = m.fds
  /\ hist' = m.hist

NoRet == [op |-> "none", err |-> "ok"]

InitProgram ==
  /\ demoCache = EmptyBag
  /\ heap = <<>>
  /\ openFds = 0
  /\ scans = <<>>
  /\ ret = NoRet
  /\ hist = EmptyHist
  /\ steps = 0

InitTimeline ==
  /\ filters = DefaultFilters
  /\ checked = [p \in ToggleProps |-> TRUE]
  /\ highlights = GameHighlights

Init ==
  /\ \E sidecar \in SidecarContents, primary \in PrimaryContents :
       fs = InitialDir(sidecar, primary)
  /\ InitProgram
  /\ InitTimeline

\* The paths a caller may name: the entries of the directory and the paths
\* the cache still holds
CallPaths == {PathJoin(DemoDir, n) : n \in Names(fs)} \cup DOMAIN demoCache

Ids == 1..Len(heap)

\* A caller invokes Demo.getDemo(filename)
GetDemo(filename) ==
  /\ steps < MaxSteps
  /\ \E g \in {getDemo(M, fs, filename)} :
         /\ SetM(g.m)
         /\ ret' = [op |-> "getDemo", path |-> filename, err |-> g.err, id |-> g.id,
                    cached |-> (g.err = "ok" /\ g.id <= Len(heap))]
  /\ steps' = steps + 1
  /\ UNCHANGED <<fs, scans, hlVars>>

\* A holder of a Demo invokes writeEvents
WriteEvents(id, events) ==
  /\ steps < MaxSteps
  /\ \E w \in {writeEvents(M, fs, id, events)} :
         /\ SetM(w.m)
         /\ fs' = w.fs
         /\ ret' = [op |-> "writeEvents", id |-> id, err |-> w.err,
                    path |-> getJSONPath(heap[id].filename),
                    events |-> events, tags |-> heap[id].tags]
  /\ steps' = steps + 1
  /\ UNCHANGED <<scans, hlVars>>

\* A holder of a Demo invokes writeTags
WriteTags(id, tags) ==
  /\ steps < MaxSteps
  /\ \E w \in {writeTags(M, fs, id, tags)} :
         /\ SetM(w.m)
         /\ fs' = w.fs
         /\ ret' = [op |-> "writeTags", id |-> id, err |-> w.err,
                    path |-> getJSONPath(heap[id].filename),
                    events |-> heap[id].events, tags |-> tags]
  /\ steps' = steps + 1
  /\ UNCHANGED <<scans, hlVars>>

\* A holder of a Demo invokes rename
Rename(id, newName) ==
  /\ steps < MaxSteps
  /\ \E r \in {rename(M, fs, id, newName)} :
         /\ SetM(r.m)
         /\ fs' = r.fs
         /\ ret' = [op |-> "rename", id |-> id, err |-> r.err, name |-> newName,
                    old |-> heap[id].filename,
                    wasCached |-> (heap[id].filename \in DOMAIN demoCache
                                   /\ demoCache[heap[id].filename] = id),
                    moved |-> (r.fs # fs)]
  /\ steps' = steps + 1
  /\ UNCHANGED <<scans, hlVars>>

\* A holder of a Demo invokes delete
Delete(id) ==
  /\ steps < MaxSteps
  /\ \E r \in {delete(M, fs, id)} :
         /\ SetM(r.m)
         /\ fs' = r.fs
         /\ ret' = [op |-> "delete", id |-> id, err |-> r.err,
                    old |-> heap[id].filename]
  /\ steps' = steps + 1
  /\ UNCHANGED <<scans, hlVars>>

\* getDemosInDirectory(dirPath) is called and awaits readdir
ScanCall(dirPath) ==
  /\ steps < MaxSteps
  /\ Len(scans) < MaxScans
  /\ scans' = Append(scans, [dirPath |-> dirPath, pc |-> "readdir", files |-> <<>>])
  /\ steps' = steps + 1
  /\ UNCHANGED <<fs, demoCache, heap, openFds, ret, hist, hlVars>>

Remove(q, i) == SubSeq(q, 1, i - 1) \o SubSeq(q, i + 1, Len(q))

\* readdir settles: the rejection is caught and the scan returns [], or the
\* names are kept for the continuation
ScanReaddir(i) ==
  /\ scans[i].pc = "readdir"
  /\ \E files \in {readdir(fs, scans[i].dirPath)} :
       IF files.err # "ok"
         THEN /\ scans' = Remove(scans, i)
              /\ ret' = [op |-> "scan", dirPath |-> scans[i].dirPath, err |-> "ok",
                         files |-> <<>>, demoList |-> <<>>, listed |-> FALSE]
         ELSE /\ scans' = [scans EXCEPT ![i].pc = "forEach", ![i].files = files.v]
              /\ UNCHANGED ret
  /\ UNCHANGED <<fs, demoCache, heap, openFds, hist, steps, hlVars>>

\* The continuation after the await: the whole forEach, then the return
ScanForEach(i) ==
  /\ scans[i].pc = "forEach"
  /\ \E r \in {forEachFile(M, fs, scans[i].dirPath, scans[i].files, <<>>)} :
         /\ SetM(r.m)
         /\ ret' = [op |-> "scan", dirPath |-> scans[i].dirPath, err |-> "ok",
                    files |-> scans[i].files, demoList |-> r.demoList,
                    listed |-> TRUE]
  /\ scans' = Remove(scans, i)
  /\ UNCHANGED <<fs, steps, hlVars>>

Next ==
  \/ \E filename \in CallPaths : GetDemo(filename)
  \/ \E id \in Ids, events \in EventInputs : WriteEvents(id, events)
  \/ \E id \in Ids, tags \in TagInputs : WriteTags(id, tags)
  \/ \E id \in Ids, newName \in NameInputs : Rename(id, newName)
  \/ \E id \in Ids : Delete(id)
  \/ \E dirPath \in {DemoDir, NoDir} : ScanCall(dirPath)
  \/ \E i \in 1..Len(scans) : ScanReaddir(i)
  \/ \E i \in 1..Len(scans) : ScanForEach(i)

Spec == Init /\ [][Next]_vars

-----------------------------------------------------------------------------
(* The demo files: getDemo, rename and delete, with new names that are      *)
(* taken in the directory, beside another process that works in it          *)

TargetNames == {<<"b">>, <<"c">>}

\* Another process replaces the sidecar c.json by a directory of that name:
\* the removal of lines 185-193 then fails with an error that is not ENOENT
ReplaceSidecar ==
  /\ steps < MaxSteps
  /\ Has(fs, CJson)
  /\ Get(fs, CJson).k = "file"
  /\ fs' = [fs EXCEPT !.c[CJson] = Directory]
  /\ ret' = [op |-> "replace", err |-> "ok"]
  /\ steps' = steps + 1
  /\ UNCHANGED <<demoCache, heap, openFds, scans, hist, hlVars>>

NextFiles ==
  \/ \E filename \in CallPaths : GetDemo(filename)
  \/ \E id \in Ids, newName \in TargetNames : Rename(id, newName)
  \/ \E id \in Ids : Delete(id)
  \/ ReplaceSidecar

SpecFiles == Init /\ [][NextFiles]_vars

-----------------------------------------------------------------------------
(* The sidecar store called directly *)

JsonPathInputs == {PathJoin(DemoDir, n) : n \in {AJson, CJson, QJson}}

InitStore ==
  /\ \E sidecar \in AllSidecarContents :
       fs = InitialDir(sidecar, File(HEADER_SIZE, NearStamp, 9, BadDoc, 6))
  /\ InitProgram
  /\ InitTimeline

\* A caller invokes writeEventsAndTagsFile(events, tags, jsonPath, overwrite)
WriteFile(events, tags, jsonPath, overwrite) ==
  /\ steps < MaxSteps
  /\ \E w \in {writeEventsAndTagsFile(fs, events, tags, jsonPath, overwrite)} :
       /\ fs' = w.fs
       /\ ret' = [op |-> "write", path |-> jsonPath, err |-> w.err,
                  events |-> events, tags |-> tags, overwrite |-> overwrite,
                  had |-> Exists(fs, jsonPath),
                  pre |-> IF Exists(fs, jsonPath) THEN Get(fs, jsonPath.name)
                          ELSE Directory]
  /\ steps' = steps + 1
  /\ UNCHANGED <<demoCache, heap, openFds, scans, hist, hlVars>>

\* A caller invokes Demo.readEventsAndTags(jsonPath)
ReadEventsAndTags(jsonPath) ==
  /\ steps < MaxSteps
  /\ \E r \in {readEventsAndTags(fs, jsonPath)} :
       ret' = [op |-> "read", path |-> jsonPath, err |-> r.err,
               events |-> r.events, tags |-> r.tags]
  /\ steps' = steps + 1
  /\ UNCHANGED <<fs, demoCache, heap, openFds, scans, hist, hlVars>>

NextStore ==
  \/ \E events \in EventInputs, tags \in TagInputs, jsonPath \in JsonPathInputs,
        overwrite \in BOOLEAN : WriteFile(events, tags, jsonPath, overwrite)
  \/ \E jsonPath \in CallPaths \cup JsonPathInputs : ReadEventsAndTags(jsonPath)

SpecStore == InitStore /\ [][NextStore]_vars

-----------------------------------------------------------------------------
(* The header reader called directly *)

HDem == <<"h">> \o DotDem

DDem == <<"d">> \o DotDem

ZDem == <<"z">> \o DotDem

HeaderLens == {0, 3, 8, 791, 792, HEADER_SIZE - 1, HEADER_SIZE, HEADER_SIZE + 1}

HeaderStamps == {GoodStamp, NearStamp, EarlyNulStamp, OtherStamp, JsonStamp}

InitHeader ==
  /\ \E len \in HeaderLens, stamp \in HeaderStamps :
       fs = MakeDir(<< Entry(HDem, File(len, stamp, 7, BadDoc, 1)),
                       Entry(DDem, Directory),
                       Entry(LDem, Link(HDem)) >>)
  /\ InitProgram
  /\ InitTimeline

\* A caller invokes Demo.readFileHeader(filename)
ReadFileHeader(filename) ==
  /\ steps < MaxSteps
  /\ \E h \in {readFileHeader(fs, filename)} :
       /\ openFds' = openFds + h.leak
       /\ ret' = [op |-> "readFileHeader", path |-> filename, err |-> h.err,
                  header |-> h.header, bytesRead |-> h.bytesRead]
  /\ steps' = steps + 1
  /\ UNCHANGED <<fs, demoCache, heap, scans, hist, hlVars>>

NextHeader ==
  \E filename \in CallPaths \cup {PathJoin(DemoDir, ZDem)} : ReadFileHeader(filename)

SpecHeader == InitHeader /\ [][NextHeader]_vars

-----------------------------------------------------------------------------
(* The timeline filters *)

InitHighlights ==
  /\ fs = InitialDir(TagsOnly, File(HEADER_SIZE, NearStamp, 9, BadDoc, 6))
  /\ InitProgram
  /\ InitTimeline

\* onChange(filters): recomputeHighlights, then setHighlights unless it threw
OnChange(fl) ==
  \E r \in {recomputeHighlights(fl)} :
    highlights' = IF r.err = "ok" THEN r.list ELSE highlights

\* A ToggleButton is clicked: onSelect(!checked), which is
\* setVisibility(prop, !checked), then toggle() unless onSelect threw
ClickToggle(prop) ==
  /\ steps < MaxEvents
  /\ steps' = steps + 1
  /\ filters' = [filters EXCEPT ![prop] = ~checked[prop]]
  /\ OnChange(filters')
  /\ checked' = IF recomputeHighlights(filters').err = "ok"
                THEN [checked EXCEPT ![prop] = ~@] ELSE checked
  /\ UNCHANGED <<fs, demoCache, heap, openFds, scans, ret, hist>>

\* The chat search input changes
ChangeSearch(value) ==
  /\ steps < MaxEvents
  /\ steps' = steps + 1
  /\ filters' = [filters EXCEPT !.chatSearch = value]
  /\ OnChange(filters')
  /\ UNCHANGED <<checked, fs, demoCache, heap, openFds, scans, ret, hist>>

\* The player selection changes
ChangePlayers(values) ==
  /\ steps < MaxEvents
  /\ steps' = steps + 1
  /\ filters' = [filters EXCEPT !.playerIds = values]
  /\ OnChange(filters')
  /\ UNCHANGED <<checked, fs, demoCache, heap, openFds, scans, ret, hist>>

NextHighlights ==
  \/ \E prop \in ToggleProps : ClickToggle(prop)
  \/ \E value \in SearchInputs : ChangeSearch(value)
  \/ \E values \in PlayerSelections : ChangePlayers(values)

SpecHighlights == InitHighlights /\ [][NextHighlights]_vars

-----------------------------------------------------------------------------
(* Properties *)

Range(q) == {q[i] : i \in 1..Len(q)}

IsEmptyArr(v) == v.t = "arr" /\ Len(v.a) = 0

\* The paths through which getDemo parsed a header (since the last rename or
\* delete) that name the file `real`
ParsedAs(real) == {p \in DOMAIN hist.parses : Follow(fs, p) = real}

\* C1: between renames and deletes, all getDemo calls (direct or from a scan)
\* whose path resolves to the same canonical file returned the same Demo
\* object, and the header of a file was parsed at most once: one path, one
\* parse, one read of the header.
C1_SingleInstancePerFile ==
  /\ \A s1 \in hist.served, s2 \in hist.served :
       Follow(fs, s1[1]) = Follow(fs, s2[1]) => s1[2] = s2[2]
  /\ \A p \in DOMAIN hist.parses :
       /\ hist.parses[p] = 1
       /\ Count(hist.reads, p) = 1
       /\ ParsedAs(Follow(fs, p)) = {p}

\* A scan that met the same file under two names (a.dem and the link l.dem)
\* after a direct getDemo had made its Demo: one object in both places
C1_Witness ==
  /\ ret.op = "scan"
  /\ \E i \in 1..Len(ret.demoList), j \in 1..Len(ret.demoList) :
       i < j /\ ret.demoList[i] = ret.demoList[j]
  /\ \E s \in hist.served : s[1].name = LDem
  /\ Cardinality(hist.served) >= 2

\* C2: after a successful rename of a cached Demo the cache holds no entry
\* under the old path and holds the Demo under the new path.
C2_RenameRekeysCache ==
  (ret.op = "rename" /\ ret.err = "ok" /\ ret.wasCached
     /\ heap[ret.id].filename # ret.old)
  => /\ ret.old \notin DOMAIN demoCache
     /\ heap[ret.id].filename \in DOMAIN demoCache
     /\ demoCache[heap[ret.id].filename] = ret.id

\* C3: a write that replaces (overwrite, or no file before) removes the
\* sidecar only when events and tags are both empty, and otherwise leaves a
\* file holding the serialized {events, tags}.
C3_DeleteOnlyWhenBothEmpty ==
  (ret.op = "write" /\ ret.err = "ok" /\ (ret.overwrite \/ ~ret.had))
  => IF IsEmptyArr(ret.events) /\ IsEmptyArr(ret.tags)
     THEN ~Exists(fs, ret.path)
     ELSE /\ Exists(fs, ret.path)
          /\ Get(fs, ret.path.name).doc = Doc("obj", ret.events, ret.tags)

\* C4: a write with overwrite=false and non-empty tags onto an existing
\* sidecar returns without raising and leaves the file as it was, whatever
\* the events.
C4_NoOverwriteKeepsFile ==
  (ret.op = "write" /\ ~ret.overwrite /\ ~IsEmptyArr(ret.tags) /\ ret.had
     /\ ret.pre.k = "file")
  => /\ ret.err = "ok"
     /\ Exists(fs, ret.path)
     /\ Get(fs, ret.path.name) = ret.pre

\* C5: rename with a name that fails the character-set and length check
\* renames no file and leaves the Demo's path as it was.
C5_RenameValidates ==
  (ret.op = "rename" /\ ~validateNewName(ret.name))
  => /\ ~ret.moved
     /\ heap[ret.id].filename = ret.old

Playerless == {"RoundStart", "RoundWin", "RoundStalemate"}

\* The displayed list is the output of the filter for the current filters
\* whenever the search text compiles (a search that does not compile leaves
\* the list of the last one that did)
SearchCompiles == filters.chatSearch = <<>> \/ regexValid(filters.chatSearch)

\* C6 as stated: with players selected, no highlight of a player-less variant
\* is in the output.
C6_PlayerlessExcluded ==
  (SearchCompiles /\ Len(filters.playerIds) > 0)
  => \A i \in 1..Len(highlights) : highlights[i].event.t \notin Playerless

\* C6 as amended: a highlight of a player-less variant passes the player
\* filter whatever the selection is: with the rounds toggle on, every such
\* highlight of the game is in the output.
C6_PlayerlessAlwaysPass ==
  (SearchCompiles /\ filters.visibleRounds)
  => \A i \in 1..Len(GameHighlights) :
       GameHighlights[i].event.t \in Playerless
         => GameHighlights[i] \in Range(highlights)

\* Players are selected and a round start is displayed
C6_Witness ==
  /\ SearchCompiles
  /\ Len(filters.playerIds) > 0
  /\ \E i \in 1..Len(highlights) : highlights[i].event.t = "RoundStart"
  /\ \E i \in 1..Len(GameHighlights) : GameHighlights[i] \notin Range(highlights)

\* The entry resolves and getDemo on it succeeds (it is cached, or its
\* sidecar can be read and its header is valid)
Succeeds(dirPath, file) ==
  LET real == realpathSync(fs, PathJoin(dirPath, file))
  IN  /\ real.err = "ok"
      /\ \/ real.v \in DOMAIN demoCache
         \/ /\ readEventsAndTags(fs, getJSONPath(real.v)).err = "ok"
            /\ readFileHeader(fs, real.v).err = "ok"

\* C7: every listed entry whose name ends in the extension, compared without
\* case, and that is a valid demo, has its Demo in the scan's result.
C7_AnyCaseExtensionScanned ==
  (ret.op = "scan" /\ ret.listed)
  => \A i \in 1..Len(ret.files) :
       (/\ Len(ret.files[i]) >= 4
        /\ LowerSeq(Suffix(ret.files[i], 4)) = DotDem
        /\ Succeeds(ret.dirPath, ret.files[i]))
       => \E k \in 1..Len(ret.demoList) :
            heap[ret.demoList[k]].header
              = Get(fs, Follow(fs, PathJoin(ret.dirPath, ret.files[i])).name).hdr

HasValidHeader(dirPath, file) ==
  readFileHeader(fs, PathJoin(dirPath, file)).err = "ok"

\* C8 as stated: the result holds exactly one Demo per listed entry that ends
\* in ".dem" and has a valid header.
C8_OnePerValidHeader ==
  (ret.op = "scan" /\ ret.listed)
  => Len(ret.demoList)
       = Cardinality({i \in 1..Len(ret.files) :
                        /\ EndsWith(ret.files[i], DotDem)
                        /\ HasValidHeader(ret.dirPath, ret.files[i])})

\* The Demos of the listed entries that end in ".dem" and on which getDemo
\* succeeds, in listing order
RECURSIVE ExpectedDemos(_, _)
ExpectedDemos(dirPath, files) ==
  IF files = <<>> THEN <<>>
  ELSE IF EndsWith(Head(files), DotDem) /\ Succeeds(dirPath, Head(files))
       THEN <<demoCache[realpathSync(fs, PathJoin(dirPath, Head(files))).v]>>
              \o ExpectedDemos(dirPath, Tail(files))
       ELSE ExpectedDemos(dirPath, Tail(files))

\* C8 as amended: a scan always returns; the result holds, in listing order,
\* exactly one Demo per listed entry that ends in ".dem" and on which getDemo
\* succeeds; every other entry is skipped and skips nothing else.
C8_OnePerSuccessfulEntry ==
  ret.op = "scan"
  => /\ ret.err = "ok"
     /\ ~ret.listed => ret.demoList = <<>>
     /\ ret.listed
          => /\ \A i \in 1..Len(ret.files) :
                  (EndsWith(ret.files[i], DotDem) /\ Succeeds(ret.dirPath, ret.files[i]))
                  => realpathSync(fs, PathJoin(ret.dirPath, ret.files[i])).v
                       \in DOMAIN demoCache
             /\ ret.demoList = ExpectedDemos(ret.dirPath, ret.files)

\* A scan that skipped a ".dem" entry on which getDemo fails and returned
\* the Demo of an entry listed after it
C8_Witness ==
  /\ ret.op = "scan"
  /\ ret.listed
  /\ \E i \in 1..Len(ret.files), j \in 1..Len(ret.files) :
       /\ i < j
       /\ EndsWith(ret.files[i], DotDem)
       /\ ~Succeeds(ret.dirPath, ret.files[i])
       /\ EndsWith(ret.files[j], DotDem)
       /\ Succeeds(ret.dirPath, ret.files[j])
  /\ Len(ret.demoList) >= 2

\* The text is the expected object: events and tags are arrays or left out
ExpectedDoc(doc) ==
  /\ doc.syntax = "obj"
  /\ doc.events.t \in {"arr", "undef"}
  /\ doc.tags.t \in {"arr", "undef"}

\* C9: readEventsAndTags returns ([], []) without raising when the sidecar is
\* absent and when it is a file whose content is not the expected object.
C9_BadSidecarGivesEmpty ==
  (/\ ret.op = "read"
   /\ \/ ~Exists(fs, ret.path)
      \/ /\ Get(fs, Follow(fs, ret.path).name).k = "file"
         /\ ~ExpectedDoc(Get(fs, Follow(fs, ret.path).name).doc))
  => /\ ret.err = "ok"
     /\ IsEmptyArr(ret.events)
     /\ IsEmptyArr(ret.tags)

\* The regular file readFileHeader was called on
HeaderFile == Get(fs, Follow(fs, ret.path).name)

\* C10 as stated: a header is returned only from a full read of 792 bytes
\* that begin with the signature; a regular file shorter than 792 bytes, or
\* whose first 8 bytes are not the signature, yields InvalidDemoFileError.
C10_HeaderFrom792Bytes ==
  ret.op = "readFileHeader"
  => /\ ret.err = "ok"
          => /\ ret.bytesRead = 792
             /\ HeaderFile.stamp = GoodStamp
     /\ (/\ Exists(fs, Follow(fs, ret.path))
         /\ HeaderFile.k = "file"
         /\ (HeaderFile.len < 792 \/ HeaderFile.stamp # GoodStamp))
          => ret.err = "InvalidDemoFile" /\ ret.header = 0

\* C10 as amended: readFileHeader returns a header only after reading
\* HEADER_SIZE (1072) bytes that begin with the signature, and then the header
\* of that file; on a regular file that is shorter than HEADER_SIZE, or whose
\* first 8 bytes are not the signature, it throws InvalidDemoFileError and
\* returns nothing.
C10_HeaderOnlyFromFullSignedRead ==
  ret.op = "readFileHeader"
  => /\ ret.err = "ok"
          => /\ ret.bytesRead = HEADER_SIZE
             /\ HeaderFile.len >= HEADER_SIZE
             /\ HeaderFile.stamp = GoodStamp
             /\ ret.header = HeaderFile.hdr
     /\ (/\ Exists(fs, Follow(fs, ret.path))
         /\ HeaderFile.k = "file"
         /\ (HeaderFile.len < HEADER_SIZE \/ HeaderFile.stamp # GoodStamp))
          => ret.err = "InvalidDemoFile" /\ ret.header = 0

\* A file of 792 bytes that begins with the signature was rejected
C10_Witness ==
  /\ ret.op = "readFileHeader"
  /\ ret.err = "InvalidDemoFile"
  /\ ret.bytesRead = 792
  /\ HeaderFile.stamp = GoodStamp

\* The step is a call of Demo.rename on the Demo ret'.id with the name ret'.name
RenameStep == steps' = steps + 1 /\ scans' = scans /\ ret'.op = "rename"

\* C11: a rename that returns has moved the primary file to <dir>/<newName>.dem
\* and the sidecar, when there was one, to <dir>/<newName>.json; the Demo's
\* path is the new primary path and nothing is left under the old base name;
\* and a rename whose primary move is possible and that finds no sidecar
\* returns.
C11_RenameMovesBoth ==
  [][RenameStep =>
       LET id == ret'.id
           old == heap[id].filename
           new == PathJoin(Dirname(old), ret'.name \o DotDem)
           oldJson == getJSONPath(old)
           newJson == PathJoin(Dirname(old), ret'.name \o DotJson)
       IN  /\ ret'.err = "ok"
                => /\ Exists(fs', new)
                   /\ Get(fs', new.name) = Get(fs, old.name)
                   /\ heap'[id].filename = new
                   /\ new # old => ~Exists(fs', old)
                   /\ (Exists(fs, oldJson) /\ oldJson # old)
                        => /\ Exists(fs', newJson)
                           /\ Get(fs', newJson.name) = Get(fs, oldJson.name)
                           /\ newJson # oldJson => ~Exists(fs', oldJson)
           /\ (/\ Exists(fs, old)
               /\ ~Exists(fs, oldJson)
               /\ ~(Exists(fs, new) /\ Get(fs, new.name).k = "dir"))
                => ret'.err = "ok"
  ]_vars

\* A rename returned: the Demo's files are under the new name, primary and
\* sidecar, and the old names are gone
C11_Witness ==
  /\ ret.op = "rename"
  /\ ret.err = "ok"
  /\ ret.moved
  /\ heap[ret.id].filename # ret.old
  /\ Exists(fs, heap[ret.id].filename)
  /\ Exists(fs, PathJoin(DemoDir, ret.name \o DotJson))
  /\ Get(fs, PathJoin(DemoDir, ret.name \o DotJson).name).doc.syntax = "obj"
  /\ ~Exists(fs, ret.old)
  /\ ~Exists(fs, getJSONPath(ret.old))

\* The step is a call of Demo.delete on the Demo ret'.id
DeleteStep == steps' = steps + 1 /\ scans' = scans /\ ret'.op = "delete"

\* C12: delete removes the primary file and then the sidecar and nothing
\* else; it returns when the sidecar is missing; when the sidecar cannot be
\* removed for another reason the error propagates (the primary is gone);
\* when the primary cannot be removed the error propagates and no file is
\* touched.
C12_DeleteRemovesBoth ==
  [][DeleteStep =>
       LET id == ret'.id
           primary == heap[id].filename
           sidecar == getJSONPath(primary)
           removable == Exists(fs, primary) /\ Get(fs, primary.name).k # "dir"
       IN  /\ ret'.err = "ok"
                => /\ removable
                   /\ fs' = Del(Del(fs, primary.name), sidecar.name)
           /\ (removable /\ (~Exists(fs, sidecar) \/ sidecar = primary))
                => /\ ret'.err = "ok"
                   /\ fs' = Del(fs, primary.name)
           /\ (removable /\ sidecar # primary /\ Exists(fs, sidecar)
                 /\ Get(fs, sidecar.name).k = "dir")
                => /\ ret'.err = "EISDIR"
                   /\ fs' = Del(fs, primary.name)
           /\ ~removable
                => /\ ret'.err # "ok"
                   /\ fs' = fs
  ]_vars

\* A delete removed the primary file and then threw the error of the sidecar
\* removal, which was not the missing-file error
C12_Witness ==
  /\ ret.op = "delete"
  /\ ret.err = "EISDIR"
  /\ ~Exists(fs, ret.old)
  /\ Exists(fs, getJSONPath(ret.old))
  /\ Get(fs, getJSONPath(ret.old).name).k = "dir"

\* The players a highlight refers to, by its variant
PlayerRefs(e) ==
  (CASE e.t = "Kill" -> {e.a, e.b, e.c}
     [] e.t \in {"Airshot", "CrossbowAirshot", "KillStreakEnded"} -> {e.a, e.b}
     [] e.t \in {"ChatMessage", "KillStreak", "PlayerConnected",
                 "PlayerDisconnected"} -> {e.a}
     [] e.t = "PointCaptured" -> Range(e.cappers)
     [] OTHER -> {}) \ {NoPlayer}

\* One of the selected identifiers is the identifier of a player the
\* highlight refers to
SelectedPlayerIn(e) ==
  \E p \in PlayerRefs(e) : toString10(p) \in Range(filters.playerIds)

\* The toggle of the category of a variant
ToggleOf(t) ==
  CASE t = "Kill" -> "visibleKillfeed"
    [] t = "PointCaptured" -> "visibleCaptures"
    [] t = "ChatMessage" -> "visibleChat"
    [] t \in {"PlayerConnected", "PlayerDisconnected"} -> "visibleConnectionMessages"
    [] t \in {"KillStreak", "KillStreakEnded"} -> "visibleKillstreaks"
    [] t \in {"RoundStart", "RoundWin", "RoundStalemate"} -> "visibleRounds"
    [] t \in {"Airshot", "CrossbowAirshot"} -> "visibleAirshots"

\* The search text is empty or matches the sender's name or the text of the
\* chat message
SearchMatches(e) ==
  \/ filters.chatSearch = <<>>
  \/ regexTest(filters.chatSearch, e.name)
  \/ regexTest(filters.chatSearch, e.text)

\* C13: with players selected, a highlight of a variant with player
\* references is displayed only if a selected identifier is one of its
\* references, and is displayed if it is one, its category is on and the
\* search does not remove it.
C13_PlayerFilterAnyField ==
  (SearchCompiles /\ Len(filters.playerIds) > 0)
  => \A i \in 1..Len(GameHighlights) :
       LET h == GameHighlights[i]
       IN  h.event.t \notin Playerless
           => /\ h \in Range(highlights) => SelectedPlayerIn(h.event)
              /\ (/\ SelectedPlayerIn(h.event)
                  /\ filters[ToggleOf(h.event.t)]
                  /\ (h.event.t = "ChatMessage" => SearchMatches(h.event)))
                 => h \in Range(highlights)

\* Player 3 alone is selected: the kill it assisted is displayed, the kill
\* it has no part in is not
C13_Witness ==
  /\ filters.playerIds = <<toString10(3)>>
  /\ SearchCompiles
  /\ \E i \in 1..Len(highlights) :
       /\ highlights[i].event.t = "Kill"
       /\ highlights[i].event.b = 3
       /\ highlights[i].event.a # 3
       /\ highlights[i].event.c # 3
  /\ \E i \in 1..Len(GameHighlights) :
       /\ GameHighlights[i].event.t = "Kill"
       /\ GameHighlights[i] \notin Range(highlights)

\* The step switches the toggle prop off
SwitchesOff(prop) ==
  /\ steps' = steps + 1
  /\ filters[prop]
  /\ ~filters'[prop]

\* C14: a toggle that is switched off removes from the displayed list
\* exactly the highlights of its category and leaves the others as they
\* were, in their order.
C14_ToggleOffRemovesCategory ==
  [][\A prop \in ToggleProps :
       SwitchesOff(prop)
       => highlights' = SelectSeq(highlights, LAMBDA h : ToggleOf(h.event.t) # prop)
  ]_vars

\* C14 for a search text that compiles: the same, and the list is then the
\* game's highlights without those the player filter, the search and the
\* toggles that are off remove.
C14_ToggleOffWhenSearchCompiles ==
  [][\A prop \in ToggleProps :
       (SwitchesOff(prop) /\ SearchCompiles)
       => highlights' = SelectSeq(highlights, LAMBDA h : ToggleOf(h.event.t) # prop)
  ]_vars

\* The player filter keeps the highlight
PlayerKeeps(e) ==
  \/ Len(filters.playerIds) = 0
  \/ e.t \in Playerless
  \/ SelectedPlayerIn(e)

\* C15: whatever the search text, a highlight that is not a chat message and
\* that the player filter and its toggle keep is displayed; for a search
\* text that is a pattern, a chat message is displayed exactly when it
\* matches the sender's name or the text and the other filters keep it.
C15_SearchOnlyRemovesChat ==
  \A i \in 1..Len(GameHighlights) :
    LET h == GameHighlights[i]
        others == PlayerKeeps(h.event) /\ filters[ToggleOf(h.event.t)]
    IN  /\ h.event.t # "ChatMessage"
             => (others => h \in Range(highlights))
        /\ (h.event.t = "ChatMessage" /\ SearchCompiles)
             => (h \in Range(highlights) <=> (others /\ SearchMatches(h.event)))

\* The step is a call of Demo.getDemo on the path ret'.path
GetDemoStep == steps' = steps + 1 /\ scans' = scans /\ ret'.op = "getDemo"

\* C16: a getDemo that throws leaves the cache and the Demos as they were;
\* the file its path resolves to has no entry afterwards, and when it threw
\* for the header, the header was read once more by this call (it is not
\* remembered as failed).
C16_FailedGetDemoKeepsCache ==
  [][(GetDemoStep /\ ret'.err # "ok")
       => /\ demoCache' = demoCache
          /\ heap' = heap
          /\ realpathSync(fs, ret'.path).err = "ok"
               => /\ realpathSync(fs, ret'.path).v \notin DOMAIN demoCache'
                  /\ ret'.err = "InvalidDemoFile"
                       => Count(hist'.reads, realpathSync(fs, ret'.path).v)
                            = Count(hist.reads, realpathSync(fs, ret'.path).v) + 1
  ]_vars

\* getDemo threw for the header of a file a second time: the file was read
\* again and has no cache entry
C16_Witness ==
  /\ ret.op = "getDemo"
  /\ ret.err = "InvalidDemoFile"
  /\ Count(hist.reads, Follow(fs, ret.path)) >= 2
  /\ Follow(fs, ret.path) \notin DOMAIN demoCache

\* The step is a call of writeEvents or writeTags on the Demo ret'.id
WriteStep ==
  steps' = steps + 1 /\ scans' = scans /\ ret'.op \in {"writeEvents", "writeTags"}

\* C17: the sidecar path of a Demo is not its primary path: writeEvents and
\* writeTags leave the primary file as it is, and the sidecar step of delete
\* works on another path.
C17_SidecarIsNotPrimary ==
  [][/\ WriteStep
        => LET primary == heap[ret'.id].filename
           IN  /\ ret'.path # primary
               /\ Exists(fs, primary)
                    => /\ Exists(fs', primary)
                       /\ Get(fs', primary.name) = Get(fs, primary.name)
     /\ DeleteStep
        => getJSONPath(heap[ret'.id].filename) # heap[ret'.id].filename
  ]_vars

\* C18: after a rename of a Demo whose file was at its stored path, whether
\* it returned or threw, the stored path names the place where that file is.
C18_PathFollowsPrimary ==
  [][(RenameStep /\ Exists(fs, heap[ret'.id].filename))
       => /\ Exists(fs', heap'[ret'.id].filename)
          /\ Get(fs', heap'[ret'.id].filename.name)
               = Get(fs, heap[ret'.id].filename.name)
  ]_vars

\* C19: whatever calls of readFileHeader were made, and however they ended,
\* no descriptor that it opened is open.
C19_NoDescriptorLeftOpen == openFds = 0

=============================================================================
